---- MODULE Spec2Model ----
(***************************************************************************)
(* A model of the Adax client of src/adax/__init__.py: the token           *)
(* exchange, the request executor with its recursive retries, the gated    *)
(* update() with its two fetches, and the coalesced write path             *)
(* (set_room_target_temperature and the flush task it schedules).          *)
(*                                                                         *)
(* Scheduling is asyncio's: one step of the model is the code a coroutine  *)
(* runs between two suspensions (an HTTP call, a sleep, Event.wait, the    *)
(* read of a response body).  Time is counted in ticks of 0.1 s.           *)
(*                                                                         *)
(* Numbers: a Python float d is denoted by the integer 1000 * d            *)
(* (thousandths), an int by itself, and the decimal string str(n) by the   *)
(* record [str |-> n].  Inputs are values that are exact in this notation. *)
(***************************************************************************)
EXTENDS Integers, Sequences, FiniteSets, TLC

VARIABLES
    now,             \* datetime.datetime.utcnow(), in ticks
    prev_request,    \* self._prev_request, in ticks
    access_token,    \* self._access_token
    homes,           \* self._homes
    rooms,           \* self._rooms
    devices,         \* self._devices
    energy,          \* self._energy
    set_event,       \* the flag of self._set_event
    write_task,      \* self._write_task: the number of a task, or 0 for None
    pending_writes,  \* self._pending_writes["rooms"]
    tasks,           \* the tasks made by asyncio.ensure_future, one per call
    waiters,         \* callers suspended in self._set_event.wait()
    upd,             \* the getter coroutines, one per invocation
    calls,           \* history: the set_room_target_temperature calls made so far
    returned,        \* history: the calls that have returned
    served,          \* history: the calls whose room a completed flush carried
    posts,           \* history: the control POSTs dispatched
    last             \* history: what the last step did

vars == <<now, prev_request, access_token, homes, rooms, devices, energy, set_event,
          write_task, pending_writes, tasks, waiters, upd, calls, returned, served,
          posts, last>>

---------------------------------------------------------------------------
(* Program constants *)

TicksPerSecond == 10
RATE_LIMIT_SECONDS == 10
\* self._timeout, and the timeout parameter of get_adax_token
TimeoutSeconds == 10
\* the default of _request's retry parameter
RequestRetry == 3
\* retry=1 of the two fetches of update()
FetchRetry == 1
\* the default of get_adax_token's retry parameter
TokenRetry == 3
\* utcnow() - timedelta(hours=2) at construction
InitialAgeSeconds == 7200

RateLimitTicks == RATE_LIMIT_SECONDS * TicksPerSecond
TimeoutTicks == TimeoutSeconds * TicksPerSecond
\* the 0.1 of max(0.1, ...) in _write_set_room_target_temperature
MinDelayTicks == TicksPerSecond \div 10

---------------------------------------------------------------------------
(* Bounds of the model *)

\* the number of set_room_target_temperature calls
MaxCalls == 2
\* the number of getter invocations
MaxUpdates == 2
\* the tick at which the clock stops: one rate-limit window and the least delay
MaxTime == 101
\* the data requests of one getter call are counted up to this number
CountCap == 2

---------------------------------------------------------------------------
(* Values *)

None == "None"
Token == "token"

Max(a, b) == IF a >= b THEN a ELSE b

\* int(x) for a float x given as the ratio num / den, den > 0: truncation toward 0
IntTrunc(num, den) == IF num >= 0 THEN num \div den ELSE -((-num) \div den)

\* str(int(temperature * 100))
StrInt100(temperature) == [str |-> IntTrunc(temperature * 100, 1000)]

\* float(s) / 100.0 for a decimal string s
FloatDiv100(s) == (s.str * 1000) \div 100

\* n / 100.0 for an int n
IntDiv100(n) == (n * 1000) \div 100

\* the arguments of the set_room_target_temperature calls that are made:
\* (1, 21.5, True), (1, 22.0, False), (2, 21.555, None)
Edits ==
    { [room_id |-> 1, temperature |-> 21500, heating_enabled |-> "True"],
      [room_id |-> 1, temperature |-> 22000, heating_enabled |-> "False"],
      [room_id |-> 2, temperature |-> 21555, heating_enabled |-> None] }

\* the dict appended to self._pending_writes["rooms"]
PendingEntry(room_id, temperature, heating_enabled) ==
    [id |-> room_id,
     heatingEnabled |-> heating_enabled,
     targetTemperature |-> StrInt100(temperature)]

\* a room of the content endpoint's JSON: temperatures are ints, in hundredths
ServerRoom(i) ==
    [id |-> i, targetTemperature |-> 1900, temperature |-> 1850,
     heatingEnabled |-> "False"]

\* the JSON bodies the content endpoint answers with; JsonNull is the body "null"
JsonNull == [null |-> TRUE]
ContentBodies ==
    { [homes |-> <<"home">>, rooms |-> <<ServerRoom(1)>>, devices |-> <<"device">>],
      [homes |-> <<"home">>, rooms |-> <<ServerRoom(1), ServerRoom(2)>>,
       devices |-> <<"device">>] }

\* the JSON bodies the energy endpoint answers with
EnergyBodies == { [log |-> "kWh"] }

\* the room dict after lines 137-139
IngestRoom(room) ==
    [room EXCEPT !.targetTemperature = IntDiv100(room.targetTemperature),
                 !.temperature = IntDiv100(room.temperature)]

IngestRooms(rs) == [i \in 1..Len(rs) |-> IngestRoom(rs[i])]

Ids(rs) == [i \in 1..Len(rs) |-> rs[i].id]
IdSet(rs) == { rs[i].id : i \in 1..Len(rs) }

Last(s) == s[Len(s)]
Front(s) == SubSeq(s, 1, Len(s) - 1)

---------------------------------------------------------------------------
(* The request executor, Adax._request, and get_adax_token *)

\* the outcomes of one credential exchange attempt
TokenOutcomes == {"200", "200-no-access_token", "non-200", "ClientError", "TimeoutError"}
\* the outcomes of one data HTTP call
HttpOutcomes ==
    {"200", "non-200", "429", "ClientError", "ClientError-429", "TimeoutError"}

\* the position of a coroutine inside _request.  stack: for each frame of the
\* recursion above the current one, where it made its recursive call: "try"
\* inside the try block, "except" inside a handler; retry: the current frame's
\* retry; tretry: get_adax_token's retry; since: when the awaited call was sent;
\* n: the data HTTP calls this _request call has dispatched so far.
NoReq == [ph |-> "none", stack |-> <<>>, retry |-> 0, tretry |-> 0, since |-> 0, n |-> 0]

\* lines 157-174 for a frame with the given retry, the credential being tok:
\* with no credential the exchange is sent, else the data call is
RequestEnter(stack, retry, n, tok) ==
    IF tok = None
    THEN [ph |-> "token", stack |-> stack, retry |-> retry, tretry |-> TokenRetry,
          since |-> now, n |-> n]
    ELSE [ph |-> "http", stack |-> stack, retry |-> retry, tretry |-> 0,
          since |-> now, n |-> n + 1]

\* an awaited call answers within its timeout, or raises TimeoutError at it
OutcomeInTime(req, o) ==
    IF o = "TimeoutError" THEN now - req.since >= TimeoutTicks
    ELSE now - req.since <= TimeoutTicks

\* get_adax_token, were a status other than 200 retried as an error is
TokenStepRetryStatus(req, o) ==
    IF o \in {"ClientError", "TimeoutError", "non-200"} /\ req.tretry > 0
    THEN [res |-> "pending", req |-> [req EXCEPT !.tretry = @ - 1, !.since = now],
          tok |-> access_token, prev |-> prev_request]
    ELSE IF o = "200"
    THEN [res |-> "pending",
          req |-> [req EXCEPT !.ph = "http", !.tretry = 0, !.since = now, !.n = @ + 1],
          tok |-> Token, prev |-> prev_request]
    ELSE [res |-> "nil", req |-> NoReq, tok |-> None, prev |-> prev_request]

\* get_adax_token, were the error raised once its retries are used up
TokenStepRaises(req, o) ==
    IF o \in {"ClientError", "TimeoutError"} /\ req.tretry > 0
    THEN [res |-> "pending", req |-> [req EXCEPT !.tretry = @ - 1, !.since = now],
          tok |-> access_token, prev |-> prev_request]
    ELSE IF o = "200"
    THEN [res |-> "pending",
          req |-> [req EXCEPT !.ph = "http", !.tretry = 0, !.since = now, !.n = @ + 1],
          tok |-> Token, prev |-> prev_request]
    ELSE IF o \in {"ClientError", "TimeoutError"}
    THEN [res |-> "raise", req |-> NoReq, tok |-> None, prev |-> prev_request]
    ELSE [res |-> "nil", req |-> NoReq, tok |-> None, prev |-> prev_request]

\* get_adax_token resumed with outcome o.  res: "pending" (a call is awaited
\* again), "nil" (_request returns None); tok, prev: self._access_token and
\* self._prev_request afterwards.
TokenStep(req, o) ==
    IF o \in {"ClientError", "TimeoutError"} /\ req.tretry > 0
    THEN [res |-> "pending", req |-> [req EXCEPT !.tretry = @ - 1, !.since = now],
          tok |-> access_token, prev |-> prev_request]
    ELSE IF o = "200"
    THEN [res |-> "pending",
          req |-> [req EXCEPT !.ph = "http", !.tretry = 0, !.since = now, !.n = @ + 1],
          tok |-> Token, prev |-> prev_request]
    ELSE [res |-> "nil", req |-> NoReq, tok |-> None, prev |-> prev_request]

\* the recursive call, were the credential not cleared before it
RequestRecurseKeepsCredential(req, site) ==
    [res |-> "pending",
     req |-> RequestEnter(Append(req.stack, site), req.retry - 1, req.n, access_token),
     tok |-> access_token, prev |-> now]

\* the recursive call _request(url, json_data, retry=retry - 1) made from `site`
\* right after line 176/189/195 cleared the credential
RequestRecurse(req, site) ==
    [res |-> "pending",
     req |-> RequestEnter(Append(req.stack, site), req.retry - 1, req.n, None),
     tok |-> None, prev |-> now]

\* An exception exc leaves the frame that has the given retry and whose callers
\* are `stack`.  A caller that recursed inside its try block (line 181) catches
\* it in its own handler, where its retry, retry + 1, is > 0: it recurses again
\* (line 191/197) unless exc is a ClientError naming 429; a caller that recursed
\* inside a handler lets it through.
RECURSIVE RequestUnwind(_, _, _, _)
RequestUnwind(stack, retry, n, exc) ==
    IF stack = <<>>
    THEN [res |-> "raise", req |-> NoReq, tok |-> None, prev |-> prev_request]
    ELSE IF Last(stack) = "try" /\ exc # "ClientError-429"
    THEN [res |-> "pending",
          req |-> RequestEnter(Append(Front(stack), "except"), retry, n, None),
          tok |-> None, prev |-> now]
    ELSE RequestUnwind(Front(stack), retry + 1, n, exc)

\* status 429, were it retried as the other statuses are
On429Retry(req) ==
    IF req.retry > 0 THEN RequestRecurse(req, "try")
    ELSE [res |-> "nil", req |-> NoReq, tok |-> None, prev |-> prev_request]

\* lines 176-180 and 182-187 for status 429: the credential is cleared and
\* _request returns None, whatever retry is
On429(req) ==
    [res |-> "nil", req |-> NoReq, tok |-> None, prev |-> prev_request]

\* lines 175-201: the data call of the current frame resumed with outcome o.
\* res: "response" (_request returns the response), "nil" (returns None),
\* "raise" (the exception leaves _request), "pending" (a call is awaited again).
HttpStep(req, o) ==
    CASE o = "200" ->
            [res |-> "response", req |-> NoReq, tok |-> access_token, prev |-> now]
      [] o = "non-200" ->
            IF req.retry > 0 THEN RequestRecurse(req, "try")
            ELSE [res |-> "nil", req |-> NoReq, tok |-> None, prev |-> prev_request]
      [] o = "429" -> On429(req)
      [] o = "ClientError" ->
            IF req.retry > 0 THEN RequestRecurse(req, "except")
            ELSE RequestUnwind(req.stack, req.retry, req.n, o)
      [] o = "ClientError-429" ->
            RequestUnwind(req.stack, req.retry, req.n, o)
      [] o = "TimeoutError" ->
            IF req.retry > 0 THEN RequestRecurse(req, "except")
            ELSE RequestUnwind(req.stack, req.retry, req.n, o)

\* a coroutine in _request resumed with outcome o of the call it awaits
RequestStep(req, o) ==
    IF req.ph = "token" THEN TokenStep(req, o) ELSE HttpStep(req, o)

Outcomes(req) == IF req.ph = "token" THEN TokenOutcomes ELSE HttpOutcomes


---------------------------------------------------------------------------
(* The state after Adax.__init__ *)

\* what a step did.  ev: what resumed the coroutine; u, k: the getter or the
\* flush task that ran; ph, retry, o: the awaited call that answered, the retry
\* of its frame, and its outcome; res: how _request ended in this step; ret: how the getter
\* or the flush task ended in this step; op: the getter; sent: the data request
\* dispatched in this step; n: the data requests the ended getter or flush
\* had dispatched; stored: line 153 ran in this step; ids: the rooms that the
\* loop of fetch_energy_info that ended in this step iterated
NoDid ==
    [ev |-> "init", u |-> 0, k |-> 0, ph |-> "none", retry |-> 0, o |-> "none", res |-> "none",
     ret |-> "none", op |-> "none", sent |-> "none", n |-> 0, stored |-> FALSE,
     ids |-> <<>>]

Init ==
    /\ now = 0
    /\ prev_request = 0 - InitialAgeSeconds * TicksPerSecond
    /\ access_token = None
    /\ homes = <<>>
    /\ rooms = <<>>
    /\ devices = <<>>
    /\ energy = <<>>
    /\ set_event = FALSE
    /\ write_task = 0
    /\ pending_writes = <<>>
    /\ tasks = <<>>
    /\ waiters = {}
    /\ upd = <<>>
    /\ calls = <<>>
    /\ returned = {}
    /\ served = {}
    /\ posts = {}
    /\ last = NoDid

---------------------------------------------------------------------------
(* The write path *)

\* asyncio.Event.set(): the flag after it
EventSet(flag) == TRUE

\* the flag, were line 120 missing
EventClearMissing(flag) == flag

\* asyncio.Event.clear(): the flag after it
EventClear(flag) == FALSE

\* the task, were line 72 missing
CancelMissing(task) == task

\* the task, were a flush that has entered _request left to run
CancelScheduledOnly(task) ==
    IF task.st \in {"new", "sleep"}
    THEN [task EXCEPT !.st = "cancelled", !.wake = 0, !.req = NoReq]
    ELSE task

\* Task.cancel(): a task that has not ended is ended where it is suspended, by
\* a CancelledError that no handler of the coroutine catches
Cancel(task) ==
    IF task.st \in {"new", "sleep", "request"}
    THEN [task EXCEPT !.st = "cancelled", !.wake = 0, !.req = NoReq]
    ELSE task

\* the pending list, were lines 73-77 missing
MergePendingUnfiltered(pending, room_id, temperature, heating_enabled) ==
    Append(pending, PendingEntry(room_id, temperature, heating_enabled))

\* the pending list, were the entries of the other rooms dropped
MergePendingSingle(pending, room_id, temperature, heating_enabled) ==
    <<PendingEntry(room_id, temperature, heating_enabled)>>

\* lines 73-85: the pending list with the room's entry replaced
MergePending(pending, room_id, temperature, heating_enabled) ==
    Append(SelectSeq(pending, LAMBDA room : ~(room.id = room_id)),
           PendingEntry(room_id, temperature, heating_enabled))

\* Adax.set_room_target_temperature, up to its suspension in Event.wait()
set_room_target_temperature(e) ==
    /\ Len(calls) < MaxCalls
    /\ LET c  == Len(calls) + 1
           pw == MergePending(pending_writes, e.room_id, e.temperature, e.heating_enabled)
           ts == IF write_task = 0 THEN tasks
                 ELSE [tasks EXCEPT ![write_task] = Cancel(@)]
       IN  /\ pending_writes' = pw
           /\ tasks' = Append(ts, [st |-> "new", json_data |-> pw, wake |-> 0,
                                   req |-> NoReq])
           /\ write_task' = Len(tasks) + 1
           /\ calls' = Append(calls, [e |-> e, t |-> now,
                                      live |-> IF write_task = 0 THEN "none"
                                               ELSE tasks[write_task].st])
           /\ IF set_event
              THEN /\ returned' = returned \cup {c}
                   /\ waiters' = waiters
              ELSE /\ returned' = returned
                   /\ waiters' = waiters \cup {c}
           /\ last' = [NoDid EXCEPT !.ev = "set", !.k = c]
    /\ UNCHANGED <<now, prev_request, access_token, homes, rooms, devices, energy,
                   set_event, upd, served, posts>>

\* lines 93-101: the delay of the flush, in ticks
FlushDelay == Max(MinDelayTicks, prev_request + RateLimitTicks - now)

\* _write_set_room_target_temperature from its first line to asyncio.sleep
FlushStart(k) ==
    /\ tasks[k].st = "new"
    /\ tasks' = [tasks EXCEPT ![k] = [@ EXCEPT !.st = "sleep", !.wake = now + FlushDelay]]
    /\ last' = [NoDid EXCEPT !.ev = "start", !.k = k]
    /\ UNCHANGED <<now, prev_request, access_token, homes, rooms, devices, energy,
                   set_event, write_task, pending_writes, waiters, upd, calls,
                   returned, served, posts>>

\* the record of a control POST: the task, its body and the calls made before it
PostOf(k) == [k |-> k, body |-> tasks[k].json_data, at |-> Len(calls)]

\* the sleep is over: _request(control, json_data) is entered with retry=3
FlushWake(k) ==
    /\ tasks[k].st = "sleep"
    /\ now >= tasks[k].wake
    /\ LET rq == RequestEnter(<<>>, RequestRetry, 0, access_token)
       IN  /\ tasks' = [tasks EXCEPT ![k] = [@ EXCEPT !.st = "request", !.req = rq]]
           /\ prev_request' = now
           /\ posts' = IF rq.ph = "http" THEN posts \cup {PostOf(k)} ELSE posts
           /\ last' = [NoDid EXCEPT !.ev = "wake", !.k = k, !.res = "pending",
                                    !.sent = IF rq.ph = "http" THEN "control" ELSE "none"]
    /\ UNCHANGED <<now, access_token, homes, rooms, devices, energy, set_event,
                   write_task, pending_writes, waiters, upd, calls, returned, served>>

\* lines 108-116 for one room of self._rooms
PatchRoom(room_i, json_rooms) ==
    LET js == SelectSeq(json_rooms, LAMBDA room_j : room_i.id = room_j.id)
    IN  IF js = <<>> THEN room_i
        ELSE LET room_j == Head(js)
                 t == [room_i EXCEPT
                         !.targetTemperature = FloatDiv100(room_j.targetTemperature)]
             IN  IF room_j.heatingEnabled # None
                 THEN [t EXCEPT !.heatingEnabled = room_j.heatingEnabled]
                 ELSE t

\* self._rooms after the flush, were the test of lines 104-107 missing
PatchRoomsUnconditional(rs, json_rooms, res) ==
    [i \in 1..Len(rs) |-> PatchRoom(rs[i], json_rooms)]

\* lines 104-116: self._rooms after the flush, given what _request returned
PatchRooms(rs, json_rooms, res) ==
    IF res = "response"
    THEN [i \in 1..Len(rs) |-> PatchRoom(rs[i], json_rooms)]
    ELSE rs

\* line 118: the pending list after the flush
ClearedPending(pending) == <<>>

\* lines 104-121 once _request has returned res ("response" or "nil") to task k
FlushEnd(k, res, o) ==
    /\ rooms' = PatchRooms(rooms, tasks[k].json_data, res)
    /\ pending_writes' = ClearedPending(pending_writes)
    /\ set_event' = EventClear(EventSet(set_event))
    /\ IF EventSet(set_event)
       THEN /\ returned' = returned \cup waiters
            /\ waiters' = {}
       ELSE UNCHANGED <<returned, waiters>>
    /\ served' = served \cup { c \in 1..Len(calls) :
                                 calls[c].e.room_id \in IdSet(tasks[k].json_data) }
    /\ write_task' = 0
    /\ tasks' = [tasks EXCEPT ![k] = [@ EXCEPT !.st = "done", !.wake = 0, !.req = NoReq]]
    /\ last' = [NoDid EXCEPT !.ev = "resume", !.k = k, !.ph = tasks[k].req.ph, !.retry = tasks[k].req.retry, !.o = o,
                             !.res = res, !.ret = "returned", !.n = tasks[k].req.n]

\* task k resumed inside _request with outcome o of the awaited call
FlushResume(k, o) ==
    /\ tasks[k].st = "request"
    /\ o \in Outcomes(tasks[k].req)
    /\ OutcomeInTime(tasks[k].req, o)
    /\ LET req == tasks[k].req
           r   == RequestStep(req, o)
       IN  /\ access_token' = r.tok
           /\ prev_request' = r.prev
           /\ CASE r.res = "pending" ->
                     /\ tasks' = [tasks EXCEPT ![k] = [@ EXCEPT !.req = r.req]]
                     /\ posts' = IF r.req.n > req.n THEN posts \cup {PostOf(k)} ELSE posts
                     /\ last' = [NoDid EXCEPT !.ev = "resume", !.k = k, !.ph = req.ph,
                                   !.retry = req.retry, !.o = o, !.res = "pending",
                                   !.sent = IF r.req.n > req.n THEN "control" ELSE "none"]
                     /\ UNCHANGED <<rooms, pending_writes, set_event, waiters, returned,
                                    served, write_task>>
                [] r.res = "raise" ->
                     \* the exception ends the task: lines 104-121 do not run
                     /\ tasks' = [tasks EXCEPT ![k] =
                                     [@ EXCEPT !.st = "raised", !.wake = 0, !.req = NoReq]]
                     /\ last' = [NoDid EXCEPT !.ev = "resume", !.k = k, !.ph = req.ph,
                                   !.retry = req.retry, !.o = o, !.res = "raise", !.ret = "raised",
                                   !.n = req.n]
                     /\ UNCHANGED <<rooms, pending_writes, set_event, waiters, returned,
                                    served, posts, write_task>>
                [] OTHER ->
                     /\ FlushEnd(k, r.res, o)
                     /\ posts' = posts
    /\ UNCHANGED <<now, homes, devices, energy, upd, calls>>

---------------------------------------------------------------------------
(* The read path *)

\* the getters the callers call: get_homes and get_devices are get_rooms but
\* for the field they return
Getters == {"get_rooms", "get_energy"}

\* a getter's count of dispatched data requests, counted up to CountCap
Count(n) == IF n > CountCap THEN CountCap ELSE n

\* the condition, were line 62 missing
UpdateSkipsRateOnly ==
    now - prev_request < RateLimitTicks

\* the condition of lines 59-63
UpdateSkips ==
    \/ now - prev_request < RateLimitTicks
    \/ write_task # 0

\* a getter's coroutine that has ended: pc tells how, i at which room of
\* fetch_energy_info's loop
Ended(u, pc) ==
    [pc |-> pc, op |-> "none", t |-> upd[u].t, req |-> NoReq, ids |-> <<>>, i |-> upd[u].i,
     room_energy |-> <<>>, n |-> upd[u].n]

\* one step of getter u: the state it leaves
Step(u, x) ==
    /\ upd' = [upd EXCEPT ![u] = x.upd]
    /\ access_token' = x.tok
    /\ prev_request' = x.prev
    /\ homes' = x.homes
    /\ rooms' = x.rooms
    /\ devices' = x.devices
    /\ energy' = x.energy
    /\ last' = x.last

\* a step that leaves the snapshot alone
Keep(u_rec, tok, prev, did) ==
    [upd |-> u_rec, tok |-> tok, prev |-> prev, homes |-> homes, rooms |-> rooms,
     devices |-> devices, energy |-> energy, last |-> did]

\* update() returns (normally, or by an exception) and the getter with it
Return(u, tok, prev, did, ret) ==
    Keep(Ended(u, ret), tok, prev,
         [did EXCEPT !.u = u, !.ret = ret, !.op = upd[u].op, !.n = upd[u].n])

\* line 153: the map stored when every room's log was fetched
CommitEnergy(room_energy) == room_energy

\* self._energy, were the map built so far stored before the return
AbortEnergyPartial(current, room_energy) == room_energy

\* lines 147-148 and 150-151: self._energy when a room's fetch gave nothing
AbortEnergy(current, room_energy) == current

\* fetch_energy_info returns at line 148 or 151, and update() and the getter with it
EnergyAbort(u, tok, prev, did) ==
    [Return(u, tok, prev, did, "returned")
        EXCEPT !.energy = AbortEnergy(energy, upd[u].room_energy),
               !.last.ids = upd[u].ids]

\* fetch_energy_info at the i-th room of the list ids it iterates: past the
\* last room the map is stored and update() returns, else
\* _request(energy_log/room_id, retry=1) is entered
EnergyLoop(u, ids, i, room_energy, tok, prev, did) ==
    IF i > Len(ids)
    THEN LET x == Return(u, tok, prev, did, "returned")
         IN  [x EXCEPT !.energy = CommitEnergy(room_energy), !.last.ids = ids,
                       !.last.stored = TRUE]
    ELSE LET rq == RequestEnter(<<>>, FetchRetry, 0, tok)
         IN  Keep([upd[u] EXCEPT !.pc = "energy", !.req = rq, !.ids = ids, !.i = i,
                                 !.room_energy = room_energy, !.n = Count(@ + rq.n)],
                  tok, now,
                  [did EXCEPT !.u = u, !.op = upd[u].op,
                              !.sent = IF rq.ph = "http" THEN "energy" ELSE "none"])

\* a getter is called: update() skips, or fetch_rooms_info enters
\* _request(content, retry=1)
Call(op) ==
    /\ Len(upd) < MaxUpdates
    /\ LET u  == Len(upd) + 1
           rq == RequestEnter(<<>>, FetchRetry, 0, access_token)
           new == [pc |-> "content", op |-> op, t |-> now, req |-> rq, ids |-> <<>>,
                   i |-> 0, room_energy |-> <<>>, n |-> rq.n]
       IN  IF UpdateSkips
           THEN /\ upd' = Append(upd, [new EXCEPT !.pc = "skipped", !.op = "none",
                                                  !.req = NoReq, !.n = 0])
                /\ last' = [NoDid EXCEPT !.ev = "call", !.u = u, !.ret = "skipped",
                                         !.op = op]
                /\ UNCHANGED <<access_token, prev_request>>
           ELSE /\ upd' = Append(upd, new)
                /\ prev_request' = now
                /\ last' = [NoDid EXCEPT !.ev = "call", !.u = u, !.res = "pending",
                              !.op = op,
                              !.sent = IF rq.ph = "http" THEN "content" ELSE "none"]
                /\ UNCHANGED access_token
    /\ UNCHANGED <<now, homes, rooms, devices, energy, set_event, write_task,
                   pending_writes, tasks, waiters, calls, returned, served, posts>>

\* getter u resumed inside _request with outcome o of the awaited call
Resume(u, o) ==
    /\ upd[u].pc \in {"content", "energy"}
    /\ o \in Outcomes(upd[u].req)
    /\ OutcomeInTime(upd[u].req, o)
    /\ LET req == upd[u].req
           r   == RequestStep(req, o)
           pc  == upd[u].pc
           did == [NoDid EXCEPT !.ev = "resume", !.u = u, !.ph = req.ph, !.retry = req.retry, !.o = o,
                                !.res = r.res, !.op = upd[u].op]
       IN  Step(u,
             CASE r.res = "pending" ->
                    Keep([upd[u] EXCEPT !.req = r.req, !.n = Count(@ + (r.req.n - req.n))],
                         r.tok, r.prev,
                         [did EXCEPT !.sent = IF r.req.n > req.n THEN pc ELSE "none"])
               [] r.res = "raise" ->
                    Return(u, r.tok, r.prev, did, "raised")
               [] r.res = "response" ->
                    Keep([upd[u] EXCEPT !.pc = IF pc = "content" THEN "content_json"
                                               ELSE "energy_json",
                                        !.req = NoReq],
                         r.tok, r.prev, did)
               [] r.res = "nil" /\ pc = "content" ->
                    \* line 130, then fetch_energy_info over the rooms as they are
                    EnergyLoop(u, Ids(rooms), 1, <<>>, r.tok, r.prev, did)
               [] r.res = "nil" /\ pc = "energy" ->
                    \* line 148
                    EnergyAbort(u, r.tok, r.prev, did))
    /\ UNCHANGED <<now, set_event, write_task, pending_writes, tasks, waiters, calls,
                   returned, served, posts>>

\* lines 131-139, then fetch_energy_info: the content response's body is read
ContentJson(u, body) ==
    /\ upd[u].pc = "content_json"
    /\ body \in ContentBodies \cup {JsonNull}
    /\ IF body = JsonNull
       THEN Step(u, EnergyLoop(u, Ids(rooms), 1, <<>>, access_token, prev_request,
                               [NoDid EXCEPT !.ev = "json", !.o = "null"]))
       ELSE LET x == EnergyLoop(u, Ids(body.rooms), 1, <<>>, access_token, prev_request,
                                [NoDid EXCEPT !.ev = "json", !.o = "body"])
            IN  Step(u, [x EXCEPT !.homes = body.homes,
                                  !.rooms = IngestRooms(body.rooms),
                                  !.devices = body.devices])
    /\ UNCHANGED <<now, set_event, write_task, pending_writes, tasks, waiters, calls,
                   returned, served, posts>>

\* lines 149-152, then the loop's next iteration: an energy response's body is read
EnergyJson(u, body) ==
    /\ upd[u].pc = "energy_json"
    /\ body \in EnergyBodies \cup {JsonNull}
    /\ IF body = JsonNull
       THEN Step(u, EnergyAbort(u, access_token, prev_request,
                                [NoDid EXCEPT !.ev = "json", !.o = "null"]))
       ELSE Step(u, EnergyLoop(u, upd[u].ids, upd[u].i + 1,
                               (upd[u].ids[upd[u].i] :> body) @@ upd[u].room_energy,
                               access_token, prev_request,
                               [NoDid EXCEPT !.ev = "json", !.o = "body"]))
    /\ UNCHANGED <<now, set_event, write_task, pending_writes, tasks, waiters, calls,
                   returned, served, posts>>

---------------------------------------------------------------------------
(* Time *)

\* the requests in flight
InFlight ==
    { tasks[k].req : k \in { j \in 1..Len(tasks) : tasks[j].st = "request" } }
      \cup { upd[u].req : u \in { v \in 1..Len(upd) : upd[v].pc \in {"content", "energy"} } }

\* the instants at which something becomes possible: the sleep of a flush
\* ends, an awaited call times out, the rate limit lets update() through; and
\* one rate-limit window from now
Instants ==
    { tasks[k].wake : k \in { j \in 1..Len(tasks) : tasks[j].st = "sleep" } }
      \cup { rq.since + TimeoutTicks : rq \in InFlight }
      \cup { prev_request + RateLimitTicks, now + RateLimitTicks }

\* the clock advances to one of these instants; a timer may be served late
Tick ==
    /\ \E t \in Instants :
          /\ t > now
          /\ t <= MaxTime
          /\ now' = t
    /\ last' = [NoDid EXCEPT !.ev = "tick"]
    /\ UNCHANGED <<prev_request, access_token, homes, rooms, devices, energy, set_event,
                   write_task, pending_writes, tasks, waiters, upd, calls, returned,
                   served, posts>>

---------------------------------------------------------------------------
(* Specifications *)

AllOutcomes == TokenOutcomes \cup HttpOutcomes

\* the write path: the callers of set_room_target_temperature and the flush tasks
WriteNext ==
    \/ \E e \in Edits : set_room_target_temperature(e)
    \/ \E k \in 1..Len(tasks) : FlushStart(k)
    \/ \E k \in 1..Len(tasks) : FlushWake(k)
    \/ \E k \in 1..Len(tasks), o \in AllOutcomes : FlushResume(k, o)

\* the read path: the callers of the getters
ReadNext ==
    \/ \E op \in Getters : Call(op)
    \/ \E u \in 1..Len(upd), o \in AllOutcomes : Resume(u, o)
    \/ \E u \in 1..Len(upd), body \in ContentBodies \cup {JsonNull} : ContentJson(u, body)
    \/ \E u \in 1..Len(upd), body \in EnergyBodies \cup {JsonNull} : EnergyJson(u, body)

Next == WriteNext \/ ReadNext \/ Tick

\* the client with callers of both kinds
Spec == Init /\ [][Next]_vars

\* the client whose getters are called, and nothing else
SpecR == Init /\ [][ReadNext \/ Tick]_vars

\* the client after a getter fetched `body` and every room's energy log at tick 0
Fetched(body) ==
    /\ now = 0
    /\ prev_request = 0
    /\ access_token = Token
    /\ homes = body.homes
    /\ rooms = IngestRooms(body.rooms)
    /\ devices = body.devices
    /\ energy = [id \in IdSet(body.rooms) |-> CHOOSE log \in EnergyBodies : TRUE]
    /\ set_event = FALSE
    /\ write_task = 0
    /\ pending_writes = <<>>
    /\ tasks = <<>>
    /\ waiters = {}
    /\ upd = <<>>
    /\ calls = <<>>
    /\ returned = {}
    /\ served = {}
    /\ posts = {}
    /\ last = NoDid

\* the client as constructed, or after a first fetch
InitW == Init \/ \E body \in ContentBodies : Len(body.rooms) > 1 /\ Fetched(body)

\* the client whose set_room_target_temperature is called, and no getter
SpecW == InitW /\ [][WriteNext \/ Tick]_vars

\* the outcomes after which _request does not retry
Unretried(req) ==
    IF req.ph = "token" THEN {"200", "non-200"} ELSE {"200", "429", "ClientError-429"}

\* the client with callers of both kinds, the servers answering every call
\* with an outcome that is not retried
CalmNext ==
    \/ \E e \in Edits : set_room_target_temperature(e)
    \/ \E k \in 1..Len(tasks) : FlushStart(k)
    \/ \E k \in 1..Len(tasks) : FlushWake(k)
    \/ \E k \in 1..Len(tasks), o \in AllOutcomes :
          o \in Unretried(tasks[k].req) /\ FlushResume(k, o)
    \/ \E op \in Getters : Call(op)
    \/ \E u \in 1..Len(upd), o \in AllOutcomes :
          o \in Unretried(upd[u].req) /\ Resume(u, o)
    \/ \E u \in 1..Len(upd), body \in ContentBodies \cup {JsonNull} : ContentJson(u, body)
    \/ \E u \in 1..Len(upd), body \in EnergyBodies \cup {JsonNull} : EnergyJson(u, body)
    \/ Tick

SpecCalm == Init /\ [][CalmNext]_vars

---------------------------------------------------------------------------
(* The coalesced write path: C1, C2, C4, C5, C6 *)

\* the entry that call c put in the pending list
EntryOfCall(c) ==
    PendingEntry(calls[c].e.room_id, calls[c].e.temperature, calls[c].e.heating_enabled)

\* the last of the first `at` calls that was made for the room
LatestCall(room_id, at) ==
    CHOOSE c \in 1..at :
        /\ calls[c].e.room_id = room_id
        /\ \A d \in (c + 1)..at : calls[d].e.room_id # room_id

\* the entries of a control POST's body
Entries(p) == { p.body[i] : i \in 1..Len(p.body) }

\* C1 as stated: when the values of a call reached the control endpoint, every
\* later call for the same room made within one rate-limit window of it
\* carries the same values.
C1_OnlyLastCallOfWindowSent ==
    \A p \in posts : \A c \in 1..p.at : \A d \in 1..Len(calls) :
        ( /\ c < d
          /\ calls[c].e.room_id = calls[d].e.room_id
          /\ calls[d].t - calls[c].t < RateLimitTicks
          /\ c = LatestCall(calls[c].e.room_id, p.at)
          /\ EntryOfCall(c) \in Entries(p) )
        => EntryOfCall(d) = EntryOfCall(c)

\* C1 (amended): every control POST is dispatched by the flush that the last
\* call before it scheduled, and carries for each room of its body one entry,
\* the values of the last call for that room made before the dispatch; so an
\* earlier call's values reach the endpoint only in a POST dispatched before
\* the next call for the room was made.
C1_PostCarriesLatestCall ==
    \A p \in posts :
        /\ p.k = p.at
        /\ \A i \in 1..Len(p.body) :
              /\ \E c \in 1..p.at : calls[c].e.room_id = p.body[i].id
              /\ p.body[i] = EntryOfCall(LatestCall(p.body[i].id, p.at))
              /\ \A j \in 1..Len(p.body) : p.body[j].id = p.body[i].id => j = i

\* a POST was dispatched after two calls for one room that differ in their values
C1_Witness ==
    \E p \in posts :
        /\ p.at = 2
        /\ calls[1].e.room_id = calls[2].e.room_id
        /\ calls[1].e # calls[2].e
        /\ calls[2].t - calls[1].t < RateLimitTicks
        /\ EntryOfCall(2) \in Entries(p)

\* call d arrived while the flush of call d - 1, for the same room, was still
\* scheduled: created, or asleep in its delay
SupersededScheduled(d) ==
    /\ calls[d].live \in {"new", "sleep"}
    /\ calls[d].e.room_id = calls[d - 1].e.room_id

\* C2 as stated: once the newer flush has ended, exactly one control POST was
\* dispatched by the two flushes.
C2_ExactlyOnePost ==
    \A d \in 2..Len(calls) :
        ( /\ SupersededScheduled(d)
          /\ last.k = d
          /\ last.ret \in {"returned", "raised"} )
        => /\ last.n = 1
           /\ \A p \in posts : p.k # d - 1

\* C2 (amended): the previous flush never dispatches a control POST; every
\* control POST the newer flush dispatches carries the newer call's
\* targetTemperature and heatingEnabled for the room; and the newer flush has
\* dispatched exactly one when its first attempt was answered with status 200.
C2_SupersededNeverPosts ==
    \A d \in 2..Len(calls) :
        SupersededScheduled(d)
        => /\ \A p \in posts : p.k # d - 1
           /\ \A p \in posts : p.k = d => EntryOfCall(d) \in Entries(p)
           /\ ( /\ last.k = d
                /\ last.res = "response"
                /\ last.retry = RequestRetry )
              => last.n = 1

\* the second call came while the first one's flush was asleep, and the second
\* flush has dispatched its POST
C2_Witness ==
    /\ Len(calls) = 2
    /\ SupersededScheduled(2)
    /\ calls[2].live = "sleep"
    /\ calls[1].e # calls[2].e
    /\ \E p \in posts : p.k = 2

\* the degrees, in thousandths, that a sent entry's string of hundredths denotes
SentDegrees(entry) == entry.targetTemperature.str * 10

\* C4: in the step that ends a flush, if the control POST succeeded then every
\* snapshot room whose id is in the sent batch has the sent target temperature
\* and, when the sent entry has a flag, the sent heating flag; otherwise
\* (_request returned None or raised) the rooms snapshot is unchanged.
C4_SnapshotAfterFlush ==
    [][ \A k \in 1..Len(tasks) :
          ( /\ tasks[k].st = "request"
            /\ tasks'[k].st \in {"done", "raised"} )
          => IF last'.res = "response"
             THEN \A i \in 1..Len(rooms') : \A j \in 1..Len(tasks[k].json_data) :
                     rooms'[i].id = tasks[k].json_data[j].id
                     => /\ rooms'[i].targetTemperature = SentDegrees(tasks[k].json_data[j])
                        /\ tasks[k].json_data[j].heatingEnabled # None
                           => rooms'[i].heatingEnabled = tasks[k].json_data[j].heatingEnabled
             ELSE rooms' = rooms ]_vars

\* a flush succeeded that carried a flag for room 1 and none for room 2, whose
\* 21.555 was sent as "2155"
C4_Witness ==
    /\ last.ev = "resume"
    /\ last.res = "response"
    /\ \E i, j \in 1..Len(rooms) :
          /\ rooms[i].id = 1
          /\ rooms[i].heatingEnabled = "True"
          /\ rooms[i].targetTemperature = 21500
          /\ rooms[j].id = 2
          /\ rooms[j].targetTemperature = 21550
          /\ rooms[j].heatingEnabled = "False"

\* C5: a call that has returned had its room carried by a flush that completed
\* after the call was made, and the event's flag is never left set, so a call
\* made after a cycle ended waits.
C5_ReturnsAfterItsFlush ==
    /\ returned \subseteq served
    /\ set_event = FALSE
    /\ \A c \in 1..Len(calls) : c \in returned \/ c \in waiters

\* a first call was released by its flush and a later call is waiting
C5_Witness ==
    /\ 1 \in returned
    /\ 2 \in waiters
    /\ last.ev = "set"

\* C6 as stated, its safety part: when the flush of the latest call ends, by
\* any of the outcomes the claim lists (a ClientError naming 429 is left out),
\* the pending list is empty and no caller is waiting.
C6_EndedFlushReleases ==
    \A k \in 1..Len(tasks) :
        ( /\ k = Len(tasks)
          /\ tasks[k].st \in {"done", "raised"}
          /\ last.ev = "resume"
          /\ last.k = k
          /\ last.o # "ClientError-429" )
        => /\ pending_writes = <<>>
           /\ waiters = {}

---------------------------------------------------------------------------
(* The gate of update(): C3 *)

\* a flush is pending or in flight
FlushLive ==
    /\ write_task # 0
    /\ tasks[write_task].st \in {"new", "sleep", "request"}

---------------------------------------------------------------------------
(* The request executor: C7, C8, C9 *)

\* C7: when a data call is answered with status 429, _request returns None in
\* that step without dispatching again, whatever its retry, and the credential
\* is None afterwards; and a flush that enters _request while the credential
\* is None awaits the credential exchange and has dispatched nothing.
C7_NoRetryOn429 ==
    [][ /\ ( /\ last'.ev = "resume"
             /\ last'.ph = "http"
             /\ last'.o = "429" )
           => /\ last'.res = "nil"
              /\ last'.sent = "none"
              /\ posts' = posts
              /\ access_token' = None
        /\ ( /\ last'.ev = "wake"
             /\ access_token = None )
           => /\ last'.sent = "none"
              /\ posts' = posts
              /\ tasks'[last'.k].req.ph = "token"
      ]_vars

\* a control POST dispatched by a retry, with retries left, was answered 429
C7_Witness ==
    /\ last.ev = "resume"
    /\ last.ph = "http"
    /\ last.o = "429"
    /\ last.retry = RequestRetry - 1
    /\ last.n = 2
    /\ access_token = None

\* C8 as stated: a getter whose fetch met a transport error or a timeout with
\* no retry left does not raise.
C8_FetchFailureNotPropagated ==
    ( /\ last.ev = "resume"
      /\ last.u # 0
      /\ last.ph = "http"
      /\ last.o \in {"ClientError", "TimeoutError"}
      /\ last.retry = 0 )
    => last.ret # "raised"

\* C9: when the credential exchange of a getter's request is answered with a
\* status other than 200, _request returns None in that step, nothing is
\* dispatched, the getter does not raise and homes, rooms and devices are
\* unchanged; and a getter that raises has dispatched a data request.
C9_TokenRefusedIsSkip ==
    /\ [][ ( /\ last'.ev = "resume"
             /\ last'.u # 0
             /\ last'.ph = "token"
             /\ last'.o = "non-200" )
           => /\ last'.res = "nil"
              /\ last'.sent = "none"
              /\ last'.ret # "raised"
              /\ upd'[last'.u].n = upd[last'.u].n
              /\ access_token' = None
              /\ UNCHANGED <<homes, rooms, devices>> ]_vars
    /\ [](last.ret = "raised" => last.n > 0)

\* get_rooms returned, with the rooms of an earlier fetch, in the step in which
\* a credential exchange was refused
C9_Witness ==
    /\ last.ev = "resume"
    /\ last.op = "get_rooms"
    /\ last.ph = "token"
    /\ last.o = "non-200"
    /\ last.ret = "returned"
    /\ last.n = 0
    /\ rooms # <<>>

---------------------------------------------------------------------------
(* The energy map: C10 *)

\* the rooms a list of ids names
IdsOf(ids) == { ids[i] : i \in 1..Len(ids) }

---------------------------------------------------------------------------
(* The flush tasks: C11, C12, C20 *)

\* C11 as stated: a flush whose control POST was dispatched before the next
\* call arrived, and that was still awaiting its answer then, is not cancelled
\* by that call.
C11_FlushingNotCancelled ==
    \A d \in 2..Len(calls) :
        ( /\ calls[d].live = "request"
          /\ \E p \in posts : p.k = d - 1 /\ p.at = d - 1 )
        => tasks[d - 1].st # "cancelled"

\* the flush tasks that are live: created, asleep or inside _request
LiveTasks == { k \in 1..Len(tasks) : tasks[k].st \in {"new", "sleep", "request"} }

\* C12: at most one flush task is live, and it is the one the handle names; so
\* at most one flush awaits a call of _request, and a flush runs its
\* completion step only as the handle's task.
C12_OneLiveFlush ==
    /\ Cardinality(LiveTasks) <= 1
    /\ LiveTasks \subseteq {write_task}
    /\ \A k \in 1..Len(tasks) : k < Len(tasks) => tasks[k].st # "request"
    /\ (last.ev \in {"start", "wake", "resume"} /\ last.k # 0) => last.k = Len(tasks)

\* a call arrived while the flush before it awaited the answer to its POST, and
\* the new flush has dispatched its own
C12_Witness ==
    /\ Len(calls) = 2
    /\ calls[2].live = "request"
    /\ \E p \in posts : p.k = 1
    /\ \E p \in posts : p.k = 2
    /\ tasks[2].st = "request"

---------------------------------------------------------------------------
(* Concurrent callers: C13 *)

\* the getters inside update()'s fetch sequence
Fetching ==
    { u \in 1..Len(upd) : upd[u].pc \in {"content", "content_json", "energy", "energy_json"} }

\* the getters and the flush tasks that await the answer to a data request
AwaitingData ==
    { <<"getter", u>> : u \in { v \in Fetching : upd[v].req.ph = "http" } }
      \cup { <<"flush", k>> : k \in { j \in LiveTasks : tasks[j].req.ph = "http" } }

\* C13 as stated: at most one data request is in flight, and at most one
\* getter is inside update()'s fetch sequence.
C13_Serialized ==
    /\ Cardinality(AwaitingData) <= 1
    /\ Cardinality(Fetching) <= 1

---------------------------------------------------------------------------
(* The rate limit and the last-request timestamp: C14, C15 *)

\* C14 as stated, for the POSTs of one flush: a flush that has dispatched a
\* second control POST did so at least MIN_INTERVAL after the end of its
\* sleep, before which its first was not dispatched.
C14_PostsSpaced ==
    \A k \in 1..Len(tasks) :
        ( /\ tasks[k].st = "request"
          /\ tasks[k].req.ph = "http"
          /\ tasks[k].req.n >= 2 )
        => now - tasks[k].wake >= RateLimitTicks

\* C15 as stated, its second half: in the step in which a data call is
\* answered, or fails, the last-request timestamp becomes the time of that step.
C15_StampedAfterEveryCall ==
    [][ ( /\ last'.ev = "resume"
          /\ last'.ph = "http" )
        => prev_request' = now ]_vars

---------------------------------------------------------------------------
(* The request executor's retries: C16, C17, C18 *)

\* the outcomes of a data call that are failures
Failures == {"non-200", "429", "ClientError", "ClientError-429", "TimeoutError"}

\* C16: in every step of a getter: when its data call fails, the credential is
\* None afterwards, nothing is dispatched in that step, and if _request goes
\* on it awaits the credential exchange; a data request is dispatched only in
\* a step that leaves the credential present; and when the exchange gives no
\* credential, _request returns None and nothing is dispatched.
C16_FailureClearsCredential ==
    [][ /\ ( /\ last'.ev = "resume"
             /\ last'.ph = "http"
             /\ last'.o \in Failures )
           => /\ access_token' = None
              /\ last'.sent = "none"
              /\ last'.res = "pending" => upd'[last'.u].req.ph = "token"
        /\ last'.sent # "none"
           => /\ access_token' = Token
              /\ access_token = Token \/ (last'.ph = "token" /\ last'.o = "200")
        /\ ( /\ last'.ev = "resume"
             /\ last'.ph = "token"
             /\ last'.o # "200"
             /\ last'.res # "pending" )
           => /\ last'.res = "nil"
              /\ last'.sent = "none"
              /\ access_token' = None
      ]_vars

\* a getter's data call met a ClientError with a retry left: the credential is
\* gone and the retry awaits the exchange
C16_Witness ==
    /\ last.ev = "resume"
    /\ last.u # 0
    /\ last.ph = "http"
    /\ last.o = "ClientError"
    /\ last.res = "pending"
    /\ upd[last.u].req.ph = "token"
    /\ access_token = None

\* C17 as stated, for the fetches of update(): a call of _request with
\* retry=1 has dispatched at most 2 data HTTP calls.
C17_AtMostBudgetPlusOne ==
    \A u \in 1..Len(upd) :
        upd[u].pc \in {"content", "energy"} => upd[u].req.n <= FetchRetry + 1

\* C18: a getter's credential exchange is attempted at most 1 + 3 times; it is
\* attempted again only after a ClientError or a timeout; and it never raises:
\* when the fourth attempt fails, or the status is not 200, or the body of a
\* 200 has no access_token, _request returns None and the credential is None.
C18_TokenRetries ==
    /\ [](\A rq \in InFlight : rq.ph = "token" => rq.tretry \in 0..TokenRetry)
    /\ [][ ( /\ last'.ev = "resume"
             /\ last'.u # 0
             /\ last'.ph = "token" )
           => /\ last'.res \in {"pending", "nil"}
              /\ last'.ret # "raised"
              /\ ( /\ last'.res = "pending"
                   /\ upd'[last'.u].req.ph = "token" )
                 => /\ last'.o \in {"ClientError", "TimeoutError"}
                    /\ upd[last'.u].req.tretry > 0
                    /\ upd'[last'.u].req.tretry = upd[last'.u].req.tretry - 1
              /\ last'.o \in {"non-200", "200-no-access_token"}
                 => /\ last'.res = "nil"
                    /\ access_token' = None
              /\ ( /\ last'.o \in {"ClientError", "TimeoutError"}
                   /\ upd[last'.u].req.tretry = 0 )
                 => /\ last'.res = "nil"
                    /\ access_token' = None
         ]_vars

\* the fourth attempt of a credential exchange failed by a ClientError, and
\* the getter returned
C18_Witness ==
    /\ last.ev = "resume"
    /\ last.u # 0
    /\ last.ph = "token"
    /\ last.o = "ClientError"
    /\ last.res = "nil"
    /\ last.ret = "returned"
    /\ access_token = None

---------------------------------------------------------------------------
(* The pending list: C19 *)

\* the calls made since the last flush that completed
Unflushed == { c \in 1..Len(calls) : c \notin served }

\* the unflushed calls that are the last one for their room
LatestUnflushed ==
    { c \in Unflushed :
        \A d \in Unflushed : calls[d].e.room_id = calls[c].e.room_id => d <= c }

\* C19: the pending list holds at most one entry per room id; its entries are
\* the values of the last call for each room called since the last completed
\* flush, none missing; and the body of the live flush is the pending list.
C19_PendingMerged ==
    /\ \A i \in 1..Len(pending_writes) : \A j \in 1..Len(pending_writes) :
          pending_writes[i].id = pending_writes[j].id => i = j
    /\ { pending_writes[i] : i \in 1..Len(pending_writes) }
          = { EntryOfCall(c) : c \in LatestUnflushed }
    /\ FlushLive => tasks[write_task].json_data = pending_writes

\* a call for room 2 superseded the scheduled flush of a call for room 1: the
\* live flush carries both edits
C19_Witness ==
    /\ Len(calls) = 2
    /\ calls[1].e.room_id = 1
    /\ calls[2].e.room_id = 2
    /\ calls[2].live \in {"new", "sleep"}
    /\ FlushLive
    /\ Len(tasks[write_task].json_data) = 2
    /\ tasks[write_task].json_data[1] = EntryOfCall(1)
    /\ tasks[write_task].json_data[2] = EntryOfCall(2)

---------------------------------------------------------------------------
(* The write-task handle: C20 *)

\* C20 as stated: the handle names a task only while that task is created,
\* asleep or inside _request.
C20_HandleOnlyWhileLive ==
    write_task # 0 => tasks[write_task].st \in {"new", "sleep", "request"}

====
